---- MODULE Spec2Model ----
(***************************************************************************)
(* Model of the thread-local dimensional metrics engine of metric-proto:   *)
(* MetricName / OwnedMetricName / MetricStore (dimensions.rs), Snapshot    *)
(* and MetricsContext (metrics.rs) and the "tlv" modes of main (main.rs):  *)
(* runtime worker threads with the start / park / stop hooks, the          *)
(* unbounded crossbeam channel and the aggregator loop of the main thread. *)
(*                                                                         *)
(* Specifications:                                                         *)
(*   Spec       the run of main in the modes "tlv" and "tlv-dim-1"         *)
(*   ApiSpec    MetricsContext called directly (connect, increment, take)  *)
(*   StoreSpec  a MetricStore called directly (update, merge, get)         *)
(*   AggSpec    the aggregator block against a channel that can close      *)
(*   LiveSpec   the run of main with fair workers and a fair receiver      *)
(*   TaskSpec   the loops of do_work_async and do_work_async_one_dim       *)
(***************************************************************************)
EXTENDS Integers, Sequences, FiniteSets, TLC

VARIABLES
    ctx,        \* thread -> MetricsContext {snapshot, tx} (the thread_local METRICS_CTX)
    tstate,     \* thread -> "new" | "running" | "stopped" (runtime worker lifecycle)
    chan,       \* messages in flight on the unbounded channel (FIFO)
    rxAlive,    \* the Receiver `rx` of main has not been dropped yet
    agg,        \* the `snapshot` local of main: the aggregator's Snapshot
    mainPc,     \* position of the main thread: "recv" | "report" | "shutdown" | "done"
    maxVal,     \* args.max_val
    metric,     \* the `metric` local of main (Option, or "panic" of the unwrap)
    last,       \* what the last executed operation did (op, thread, results)
    recorded,   \* history: identity -> sum of the deltas passed to increment
    pend,       \* history: thread -> what went into the live Snapshot since it was fresh
    discarded,  \* history: the batches dropped with the channel or by a failed send
    ninc,       \* history: number of increment calls made (bounded by MaxInc)
    txAlive,    \* some Sender of the channel exists (the runtime holds clones in its hooks)
    store,      \* a MetricStore driven directly through update / merge / get
    allocs,     \* history: clone_into_owned conversions made by update on `store`
    moved,      \* history: entries inserted into `store` by merge (owned keys moved in)
    hist,       \* history: identity -> number of records and sum of the deltas recorded
    slast,      \* what the last operation on `store` was and what it returned
    task        \* a worker task: which loop it runs, its `iter` local, increments since a yield

sysVars == <<ctx, tstate, chan, rxAlive, agg, mainPc, maxVal, metric, last,
             recorded, pend, discarded, ninc>>

storeVars == <<store, allocs, moved, hist, slast>>

auxVars == <<txAlive, storeVars, task>>

vars == <<sysVars, auxVars>>

-----------------------------------------------------------------------------
(* Bounds of the exploration *)

\* increment calls explored, over all threads
MaxInc == 2
\* a thread that has been running for a while starts WarmGap increments
\* below the flush threshold
WarmGap == 1

Threads == {"w1", "w2"}

-----------------------------------------------------------------------------
(* Option<T> *)

NoneV == [some |-> FALSE]
Some(v) == [some |-> TRUE, val |-> v]

\* Option::unwrap_or_default for Option<u64>
unwrap_or_default(o) == IF o.some THEN o.val ELSE 0

-----------------------------------------------------------------------------
(* dimensions.rs: label values and metric identities *)

LABELS == 5

\* HelperIdentity as LabelValue
HelperIdentity == {"H1", "H2", "H3"}

as_u64(l) == CASE l = "H1" -> 0
               [] l = "H2" -> 1
               [] l = "H3" -> 2

\* Box::new(self.clone())
boxed(l) == l

\* LabelValue is an open trait: a label type of a caller.  Nothing relates
\* its surrogates to those of HelperIdentity; this one maps both of its
\* values to surrogates that HelperIdentity uses as well.
RegionLabel == {"R1", "R2"}

RegionLabel_as_u64(l) == CASE l = "R1" -> 0
                           [] l = "R2" -> 1

\* v.1.as_u64() on a &dyn LabelValue
LabelValue_as_u64(l) ==
    IF l \in HelperIdentity THEN as_u64(l) ELSE RegionLabel_as_u64(l)

with_no_labels(name) ==
    [key |-> name, labels |-> [i \in 1..LABELS |-> NoneV]]

with_one_label(name, label_name, label_value) ==
    [key |-> name,
     labels |-> [i \in 1..LABELS |->
                   IF i = 1 THEN Some(<<label_name, label_value>>) ELSE NoneV]]

clone_into_owned(n) ==
    [key |-> n.key,
     labels |-> [i \in 1..LABELS |->
                   IF n.labels[i].some
                   THEN Some(<<n.labels[i].val[1],
                               LabelValue_as_u64(n.labels[i].val[2]),
                               boxed(n.labels[i].val[2])>>)
                   ELSE NoneV]]

\* What a Hasher is fed: state.write(bytes) and state.write_u64(n)
WriteBytes(s) == [w |-> "bytes", s |-> s]
WriteU64(n) == [w |-> "u64", n |-> n]

compute_label_hash(state, label) ==
    IF label.some
    THEN state \o <<WriteBytes(label.val[1]), WriteU64(LabelValue_as_u64(label.val[2]))>>
    ELSE state

\* impl Hash for MetricName
MetricName_hash(n, state) ==
    LET s0 == state \o <<WriteBytes(n.key)>>
        s1 == compute_label_hash(s0, n.labels[1])
        s2 == compute_label_hash(s1, n.labels[2])
        s3 == compute_label_hash(s2, n.labels[3])
        s4 == compute_label_hash(s3, n.labels[4])
    IN  compute_label_hash(s4, n.labels[5])

RECURSIVE OwnedLabelsHash(_, _, _)
OwnedLabelsHash(o, i, state) ==
    IF i > LABELS THEN state
    ELSE OwnedLabelsHash(o, i + 1,
            IF o.labels[i].some
            THEN state \o <<WriteBytes(o.labels[i].val[1]), WriteU64(o.labels[i].val[2])>>
            ELSE state)

\* variant: the labels are fed before the key
OwnedMetricName_hash_LabelsFirst(o, state) ==
    OwnedLabelsHash(o, 1, state) \o <<WriteBytes(o.key)>>

\* impl Hash for OwnedMetricName
OwnedMetricName_hash(o, state) ==
    OwnedLabelsHash(o, 1, state \o <<WriteBytes(o.key)>>)

\* compute_hash with a hasher that is a function of what it was fed: the
\* model keeps the fed sequence itself as the hash value
compute_hash_borrowed(key) == MetricName_hash(key, <<>>)
compute_hash_owned(key) == OwnedMetricName_hash(key, <<>>)

\* OwnedMetricName::same
same(a, b) ==
    /\ a.key = b.key
    /\ \A i \in 1..LABELS :
          IF a.labels[i].some /\ b.labels[i].some
          THEN a.labels[i].val[1] = b.labels[i].val[1]
               /\ a.labels[i].val[2] = b.labels[i].val[2]
          ELSE ~a.labels[i].some /\ ~b.labels[i].some

\* variant: the boxed label value is compared as well
eq_WithValue(o, n) ==
    IF o.key # n.key THEN FALSE
    ELSE \A i \in 1..LABELS :
          IF o.labels[i].some /\ n.labels[i].some
          THEN o.labels[i].val[2] = LabelValue_as_u64(n.labels[i].val[2])
               /\ o.labels[i].val[1] = n.labels[i].val[1]
               /\ o.labels[i].val[3] = boxed(n.labels[i].val[2])
          ELSE ~o.labels[i].some /\ ~n.labels[i].some

\* impl PartialEq<MetricName> for &OwnedMetricName
eq(o, n) ==
    IF o.key # n.key THEN FALSE
    ELSE \A i \in 1..LABELS :
          IF o.labels[i].some /\ n.labels[i].some
          THEN o.labels[i].val[2] = LabelValue_as_u64(n.labels[i].val[2])
               /\ o.labels[i].val[1] = n.labels[i].val[1]
          ELSE ~o.labels[i].some /\ ~n.labels[i].some

-----------------------------------------------------------------------------
(* dimensions.rs: MetricStore.  buf is the set of (key, count) entries of  *)
(* the hash map.  Counts are u64; the explored counts stay far below 2^64, *)
(* so the additions are not reduced.                                       *)

MetricStore_default == {}

\* raw_entry().from_hash(hash, is_match) with the borrowed key's hash
FromHashEq(buf, key) ==
    {e \in buf : eq(e.k, key) /\ compute_hash_owned(e.k) = compute_hash_borrowed(key)}

\* raw_entry_mut().from_hash(hash, |q| q.same(&k)) with the owned key's hash
FromHashSame(buf, k) ==
    {e \in buf : same(e.k, k) /\ compute_hash_owned(e.k) = compute_hash_owned(k)}

\* variant: the occupied entry is assigned the value instead of added to
MetricStore_update_Assign(buf, key, val) ==
    LET found == FromHashEq(buf, key)
    IN  IF found # {}
        THEN LET e == CHOOSE e \in found : TRUE
             IN  (buf \ {e}) \cup {[k |-> e.k, v |-> val]}
        ELSE buf \cup {[k |-> clone_into_owned(key), v |-> val]}

\* variant: the vacant entry is inserted with a zero count
MetricStore_update_VacantZero(buf, key, val) ==
    LET found == FromHashEq(buf, key)
    IN  IF found # {}
        THEN LET e == CHOOSE e \in found : TRUE
             IN  (buf \ {e}) \cup {[k |-> e.k, v |-> e.v + val]}
        ELSE buf \cup {[k |-> clone_into_owned(key), v |-> 0]}

MetricStore_update(buf, key, val) ==
    LET found == FromHashEq(buf, key)
    IN  IF found # {}
        THEN LET e == CHOOSE e \in found : TRUE
             IN  (buf \ {e}) \cup {[k |-> e.k, v |-> e.v + val]}
        ELSE buf \cup {[k |-> clone_into_owned(key), v |-> val]}

\* variant: the matching entry is overwritten by the merged count
MergeEntry_Overwrite(buf, k, v) ==
    LET found == FromHashSame(buf, k)
    IN  IF found # {}
        THEN LET e == CHOOSE e \in found : TRUE
             IN  (buf \ {e}) \cup {[k |-> e.k, v |-> v]}
        ELSE buf \cup {[k |-> k, v |-> 0 + v]}

\* variant: a new entry is inserted with the count and then added to
MergeEntry_InsertTwice(buf, k, v) ==
    LET found == FromHashSame(buf, k)
    IN  IF found # {}
        THEN LET e == CHOOSE e \in found : TRUE
             IN  (buf \ {e}) \cup {[k |-> e.k, v |-> e.v + v]}
        ELSE buf \cup {[k |-> k, v |-> v + v]}

\* one iteration of the loop of merge
MergeEntry(buf, k, v) ==
    LET found == FromHashSame(buf, k)
    IN  IF found # {}
        THEN LET e == CHOOSE e \in found : TRUE
             IN  (buf \ {e}) \cup {[k |-> e.k, v |-> e.v + v]}
        ELSE buf \cup {[k |-> k, v |-> 0 + v]}

RECURSIVE MetricStore_merge(_, _)
MetricStore_merge(buf, other) ==
    IF other = {} THEN buf
    ELSE LET e == CHOOSE e \in other : TRUE
         IN  MetricStore_merge(MergeEntry(buf, e.k, e.v), other \ {e})

\* variant: an absent entry is reported as a zero count
get_counter_OrZero(buf, key) ==
    LET found == FromHashEq(buf, key)
    IN  IF found # {} THEN Some((CHOOSE e \in found : TRUE).v) ELSE Some(0)

get_counter(buf, key) ==
    LET found == FromHashEq(buf, key)
    IN  IF found # {} THEN Some((CHOOSE e \in found : TRUE).v) ELSE NoneV

RECURSIVE AllDimLoop(_, _, _)
AllDimLoop(rest, key, res) ==
    IF rest = {} THEN res
    ELSE LET e == CHOOSE e \in rest : TRUE
         IN  AllDimLoop(rest \ {e}, key,
                IF e.k.key = key THEN Some(unwrap_or_default(res) + e.v) ELSE res)

get_counter_all_dim(buf, key) == AllDimLoop(buf, key, NoneV)

\* tests::one_dimension: `for i in 0..10 { store.update(&h1, i) }`
RECURSIVE UpdateRange(_, _, _, _)
UpdateRange(buf, key, i, n) ==
    IF i >= n THEN buf
    ELSE UpdateRange(MetricStore_update(buf, key, i), key, i + 1, n)

\* tests::one_dimension: the store the test asserts on
one_dimension ==
    LET h1 == with_one_label("foo", "helper", "H1")
        h2 == with_one_label("foo", "helper", "H2")
        s0 == MetricStore_update(MetricStore_update(MetricStore_default, h1, 0), h2, 0)
        s1 == UpdateRange(s0, h1, 0, 10)
    IN  MetricStore_update(s1, h2, 3)

-----------------------------------------------------------------------------
(* metrics.rs: metrics, Snapshot *)

KEY == "metric"

FLUSH_THRESHOLD == 50000

Counter(key, delta) ==
    [ty |-> "Counter", key |-> key, helper |-> "-", delta |-> delta]
OneDimensionCounter(key, helper, delta) ==
    [ty |-> "OneDimensionCounter", key |-> key, helper |-> helper, delta |-> delta]

\* Metric::into_metric: <<MetricName, MetricValue>>
into_metric(m) ==
    IF m.ty = "Counter"
    THEN <<with_no_labels(m.key), m.delta>>
    ELSE <<with_one_label(m.key, "dest", m.helper), m.delta>>

Snapshot_new == [store |-> MetricStore_default, cnt |-> 0]

\* variant: the test is inverted
Snapshot_is_empty_Inverted(s) == s.cnt # 0

Snapshot_is_empty(s) == s.cnt = 0

\* variant: the Snapshot is copied out and not replaced
Snapshot_take_Clone(s) == [left |-> s, taken |-> s]

\* Snapshot::take: <<the value left in place, the value returned>>
Snapshot_take(s) == [left |-> Snapshot_new, taken |-> s]

\* variant: the flag is raised one call late
Snapshot_increment_Late(s, m) ==
    LET kv == into_metric(m)
        s1 == [store |-> MetricStore_update(s.store, kv[1], kv[2]),
               cnt |-> s.cnt + 1]
    IN  [snap |-> s1, ret |-> (s1.cnt > FLUSH_THRESHOLD)]

\* Snapshot::increment: the Snapshot afterwards and the returned flag
Snapshot_increment(s, m) ==
    LET kv == into_metric(m)
        s1 == [store |-> MetricStore_update(s.store, kv[1], kv[2]),
               cnt |-> s.cnt + 1]
    IN  [snap |-> s1, ret |-> (s1.cnt >= FLUSH_THRESHOLD)]

Snapshot_merge(s, other) ==
    [store |-> MetricStore_merge(s.store, other.store), cnt |-> s.cnt]

Snapshot_get(s, key) == get_counter(s.store, key)

Snapshot_get_all_dims(s, key) == get_counter_all_dim(s.store, key)

-----------------------------------------------------------------------------
(* metrics.rs: MetricsContext.  Each operation yields the context          *)
(* afterwards, whether the call panicked (unwrap of None), the flag the    *)
(* Snapshot returned and the Snapshot handed to Sender::send, if any.      *)

MetricsContext_new == [snapshot |-> NoneV, tx |-> NoneV]

\* variant: a live Snapshot is kept when the context is connected again
MetricsContext_connect_KeepLive(c, tx) ==
    [snapshot |-> IF c.snapshot.some THEN c.snapshot ELSE Some(Snapshot_new),
     tx |-> Some(tx)]

MetricsContext_connect(c, tx) ==
    [snapshot |-> Some(Snapshot_new), tx |-> Some(tx)]

\* variant: the hook entry point hands out a copy and keeps the live Snapshot
MetricsContext_take_snapshot_Peek(c) ==
    IF ~c.snapshot.some
    THEN [ctx |-> c, panic |-> TRUE, taken |-> NoneV]
    ELSE [ctx |-> c, panic |-> FALSE, taken |-> Some(c.snapshot.val)]

MetricsContext_take_snapshot(c) ==
    IF ~c.snapshot.some
    THEN [ctx |-> c, panic |-> TRUE, taken |-> NoneV]
    ELSE LET tk == Snapshot_take(c.snapshot.val)
         IN  [ctx |-> [c EXCEPT !.snapshot = Some(tk.left)],
              panic |-> FALSE, taken |-> Some(tk.taken)]

\* variant: the threshold batch is sent as a copy, the live Snapshot stays
MetricsContext_increment_NoTake(c, m) ==
    IF ~c.snapshot.some
    THEN [ctx |-> c, panic |-> TRUE, ret |-> FALSE, send |-> NoneV]
    ELSE LET r == Snapshot_increment(c.snapshot.val, m)
         IN  [ctx |-> [c EXCEPT !.snapshot = Some(r.snap)],
              panic |-> FALSE, ret |-> r.ret,
              send |-> IF r.ret /\ c.tx.some THEN Some(r.snap) ELSE NoneV]

\* variant: a missing Snapshot is created on first use instead of unwrapped
MetricsContext_increment_Lazy(c, m) ==
    LET live == IF c.snapshot.some THEN c.snapshot.val ELSE Snapshot_new
        r == Snapshot_increment(live, m)
    IN  IF r.ret /\ c.tx.some
        THEN LET tk == Snapshot_take(r.snap)
             IN  [ctx |-> [c EXCEPT !.snapshot = Some(tk.left)],
                  panic |-> FALSE, ret |-> r.ret, send |-> Some(tk.taken)]
        ELSE [ctx |-> [c EXCEPT !.snapshot = Some(r.snap)],
              panic |-> FALSE, ret |-> r.ret, send |-> NoneV]

\* variant: the threshold signal is ignored, nothing is taken or sent
MetricsContext_increment_NoFlush(c, m) ==
    IF ~c.snapshot.some
    THEN [ctx |-> c, panic |-> TRUE, ret |-> FALSE, send |-> NoneV]
    ELSE LET r == Snapshot_increment(c.snapshot.val, m)
         IN  [ctx |-> [c EXCEPT !.snapshot = Some(r.snap)],
              panic |-> FALSE, ret |-> r.ret, send |-> NoneV]

MetricsContext_increment(c, m) ==
    IF ~c.snapshot.some
    THEN [ctx |-> c, panic |-> TRUE, ret |-> FALSE, send |-> NoneV]
    ELSE LET r == Snapshot_increment(c.snapshot.val, m)
         IN  IF r.ret /\ c.tx.some
             THEN LET tk == Snapshot_take(r.snap)
                  IN  [ctx |-> [c EXCEPT !.snapshot = Some(tk.left)],
                       panic |-> FALSE, ret |-> r.ret, send |-> Some(tk.taken)]
             ELSE [ctx |-> [c EXCEPT !.snapshot = Some(r.snap)],
                   panic |-> FALSE, ret |-> r.ret, send |-> NoneV]

-----------------------------------------------------------------------------
(* Inputs *)

\* the metrics the workers record: both metric types, two keys, several
\* label values and deltas
Metrics ==
    { Counter(KEY, 1),
      OneDimensionCounter(KEY, "H1", 1),
      OneDimensionCounter("foo", "H2", 2) }

\* what the worker tasks record
TaskMetrics ==
    { Counter(KEY, 1),
      OneDimensionCounter(KEY, "H1", 1),
      OneDimensionCounter(KEY, "H2", 1),
      OneDimensionCounter(KEY, "H3", 1) }

Idents == { into_metric(m)[1] : m \in Metrics \cup TaskMetrics }

Keys == { m.key : m \in Metrics }

\* values of --max-val (100_000_000 is the default)
MaxVals == {0, 2, 100000000}

-----------------------------------------------------------------------------
(* Inputs of the operations on a MetricStore *)

\* operations on `store` that change it (update and merge calls) explored
MaxOps == 2

\* the struct MetricName with the given populated label slots
MetricName_struct(name, slots) ==
    [key |-> name,
     labels |-> [i \in 1..LABELS |->
                   IF i \in DOMAIN slots THEN Some(slots[i]) ELSE NoneV]]

StoreIdents ==
    { with_no_labels("foo"),
      with_one_label("foo", "helper", "H1"),
      with_one_label("foo", "helper", "H2"),
      with_one_label("foo", "helper", "R1"),
      with_one_label("foo", "dest", "H1"),
      with_one_label("bar", "helper", "H1"),
      MetricName_struct("foo", 2 :> <<"helper", "H1">>),
      MetricName_struct("foo", (2 :> <<"helper", "H1">>) @@ (4 :> <<"dest", "R2">>)) }

StoreKeys == {"foo", "bar", "baz"}

Deltas == {0, 2}

HistNew == [id \in StoreIdents |-> [n |-> 0, sum |-> 0]]

HistAdd(h, id, delta) == [h EXCEPT ![id] = [n |-> @.n + 1, sum |-> @.sum + delta]]

SLastOf(op, id, key, delta, res) ==
    [op |-> op, id |-> id, key |-> key, delta |-> delta, res |-> res]

TaskIdle == [kind |-> "none", t |-> "-", iter |-> 0, since |-> 0, helper |-> "-"]

-----------------------------------------------------------------------------
(* History bookkeeping *)

ZeroCounts == [id \in Idents |-> 0]

PendNew == [k |-> 0, by |-> ZeroCounts, kd |-> {}]

PendAdd(p, m) ==
    [k |-> p.k + 1,
     by |-> [p.by EXCEPT ![into_metric(m)[1]] = @ + m.delta],
     kd |-> p.kd \cup {<<m.key, m.delta>>}]

RECURSIVE SumOver(_, _)
SumOver(S, f) ==
    IF S = {} THEN 0
    ELSE LET x == CHOOSE x \in S : TRUE
         IN  f[x] + SumOver(S \ {x}, f)

\* total held under a key in a set or sequence of Snapshots
KeyTotal(s, key) == unwrap_or_default(Snapshot_get_all_dims(s, key))

RECURSIVE SeqKeyTotal(_, _)
SeqKeyTotal(q, key) ==
    IF q = <<>> THEN 0
    ELSE KeyTotal(Head(q), key) + SeqKeyTotal(Tail(q), key)

NoDiscard == [n |-> 0, tot |-> [key \in Keys |-> 0], failedBy |-> {}]

\* the batches of q are dropped
Discard(d, q) ==
    [n |-> d.n + Len(q),
     tot |-> [key \in Keys |-> d.tot[key] + SeqKeyTotal(q, key)],
     failedBy |-> d.failedBy]

\* the send of batch by thread t failed and the batch is dropped
FailedSend(d, t, batch) ==
    [Discard(d, <<batch>>) EXCEPT !.failedBy = @ \cup {t}]

LastOf(op, t, panic, ret, taken, sent, gp) ==
    [op |-> op, t |-> t, panic |-> panic, ret |-> ret,
     taken |-> taken, sent |-> sent, gp |-> gp]

-----------------------------------------------------------------------------
(* The state after construction.  A worker is either not started yet or   *)
(* has been running do_work_async for a while: connected, with            *)
(* FLUSH_THRESHOLD - WarmGap increments of Counter(KEY, 1) in its live     *)
(* Snapshot and nothing flushed so far.                                    *)

WarmCnt == FLUSH_THRESHOLD - WarmGap

WarmIdent == into_metric(Counter(KEY, 1))[1]

WarmSnapshot ==
    [store |-> {[k |-> clone_into_owned(WarmIdent), v |-> WarmCnt]},
     cnt |-> WarmCnt]

WarmPend ==
    [k |-> WarmCnt, by |-> [ZeroCounts EXCEPT ![WarmIdent] = WarmCnt],
     kd |-> {<<KEY, 1>>}]

Init ==
    /\ tstate \in [Threads -> {"new", "running"}]
    /\ ctx = [t \in Threads |->
                IF tstate[t] = "running"
                THEN [snapshot |-> Some(WarmSnapshot), tx |-> Some("tx")]
                ELSE MetricsContext_new]
    /\ pend = [t \in Threads |-> IF tstate[t] = "running" THEN WarmPend ELSE PendNew]
    /\ recorded = [ZeroCounts EXCEPT
                     ![WarmIdent] = WarmCnt * Cardinality({t \in Threads : tstate[t] = "running"})]
    /\ chan = <<>>
    /\ rxAlive = TRUE
    /\ agg = Snapshot_new
    /\ mainPc = "recv"
    /\ maxVal \in MaxVals
    /\ metric = [st |-> "unset", val |-> 0]
    /\ last = LastOf("init", "main", FALSE, FALSE, NoneV, "none", PendNew)
    /\ discarded = NoDiscard
    /\ ninc = 0
    /\ txAlive = TRUE
    /\ store = MetricStore_default
    /\ allocs = 0
    /\ moved = 0
    /\ hist = HistNew
    /\ slast = SLastOf("init", with_no_labels("foo"), "foo", 0, NoneV)
    /\ task = TaskIdle

-----------------------------------------------------------------------------
(* crossbeam unbounded channel: Sender::send never blocks; it fails when   *)
(* the Receiver has been dropped, and the hooks and increment ignore the   *)
(* result (`let _ = tx.send(..)`), which drops the returned batch.         *)

SendResult == IF rxAlive THEN "ok" ELSE "err"

Send(t, batch) ==
    /\ chan' = IF rxAlive THEN Append(chan, batch) ELSE chan
    /\ discarded' = IF rxAlive THEN discarded ELSE FailedSend(discarded, t, batch)

NoSend == UNCHANGED <<chan, discarded>>

-----------------------------------------------------------------------------
(* Worker threads of the runtime (main.rs, the hooks) *)

\* METRICS_CTX.with(|m| m.connect(tx)) on thread t
Connect(t) ==
    /\ ctx' = [ctx EXCEPT ![t] = MetricsContext_connect(ctx[t], "tx")]
    /\ pend' = [pend EXCEPT ![t] = PendNew]
    /\ last' = LastOf("connect", t, FALSE, FALSE, NoneV, "none", pend[t])
    /\ UNCHANGED <<chan, rxAlive, agg, mainPc, maxVal, metric, recorded, discarded, ninc>>

\* METRICS_CTX.with(|m| m.increment(metric)) on thread t
IncrementBody(t, m) ==
    /\ LET r == MetricsContext_increment(ctx[t], m)
       IN  /\ ctx' = [ctx EXCEPT ![t] = r.ctx]
           /\ IF r.send.some THEN Send(t, r.send.val) ELSE NoSend
           /\ recorded' = IF r.panic THEN recorded
                          ELSE [recorded EXCEPT ![into_metric(m)[1]] = @ + m.delta]
           /\ pend' = [pend EXCEPT ![t] =
                         IF r.panic THEN @
                         ELSE IF r.send.some THEN PendNew ELSE PendAdd(@, m)]
           /\ last' = LastOf("increment", t, r.panic, r.ret, r.send,
                             IF r.send.some THEN SendResult ELSE "none",
                             IF r.panic THEN pend[t] ELSE PendAdd(pend[t], m))
    /\ ninc' = ninc + 1
    /\ UNCHANGED <<rxAlive, agg, mainPc, maxVal, metric>>

\* the increment calls explored are capped
Increment(t, m) ==
    /\ ninc < MaxInc
    /\ IncrementBody(t, m)

\* on_thread_start: the runtime starts worker t
ThreadStart(t) ==
    /\ tstate[t] = "new"
    /\ mainPc \notin {"done", "panicked"}
    /\ Connect(t)
    /\ tstate' = [tstate EXCEPT ![t] = "running"]
    /\ UNCHANGED auxVars

\* a task on worker t records a metric
Work(t, m) ==
    /\ tstate[t] = "running"
    /\ Increment(t, m)
    /\ UNCHANGED tstate
    /\ UNCHANGED auxVars

\* variant: a batch whose send failed is put back as the live Snapshot
Hook_KeepOnFail(op, t) ==
    LET r == MetricsContext_take_snapshot(ctx[t])
        sends == ~r.panic /\ ~Snapshot_is_empty(r.taken.val)
    IN  /\ ctx' = [ctx EXCEPT ![t] = IF sends /\ ~rxAlive THEN ctx[t] ELSE r.ctx]
        /\ IF sends THEN Send(t, r.taken.val) ELSE NoSend
        /\ pend' = [pend EXCEPT ![t] = IF r.panic THEN @ ELSE PendNew]
        /\ last' = LastOf(op, t, r.panic, FALSE, r.taken,
                          IF sends THEN SendResult ELSE "none", pend[t])

\* the body shared by on_thread_park and on_thread_stop:
\*   let snapshot = METRICS_CTX.with(|m| m.take_snapshot());
\*   if !snapshot.is_empty() { let _ = tx.send(snapshot); }
Hook(op, t) ==
    LET r == MetricsContext_take_snapshot(ctx[t])
        sends == ~r.panic /\ ~Snapshot_is_empty(r.taken.val)
    IN  /\ ctx' = [ctx EXCEPT ![t] = r.ctx]
        /\ IF sends THEN Send(t, r.taken.val) ELSE NoSend
        /\ pend' = [pend EXCEPT ![t] = IF r.panic THEN @ ELSE PendNew]
        /\ last' = LastOf(op, t, r.panic, FALSE, r.taken,
                          IF sends THEN SendResult ELSE "none", pend[t])

\* on_thread_park: the worker is about to wait for work
Park(t) ==
    /\ tstate[t] = "running"
    /\ Hook("park", t)
    /\ UNCHANGED <<tstate, rxAlive, agg, mainPc, maxVal, metric, recorded, ninc>>
    /\ UNCHANGED auxVars

\* on_thread_stop: workers stop once the runtime has been shut down
Stop(t) ==
    /\ tstate[t] = "running"
    /\ mainPc \in {"done", "panicked"}
    /\ Hook("stop", t)
    /\ tstate' = [tstate EXCEPT ![t] = "stopped"]
    /\ UNCHANGED <<rxAlive, agg, mainPc, maxVal, metric, recorded, ninc>>
    /\ UNCHANGED auxVars

-----------------------------------------------------------------------------
(* The main thread (main.rs, modes "tlv" and "tlv-dim-1") *)

\* variant: the predicate is evaluated on the total before the merge
AggRecv_CheckBefore ==
    /\ mainPc = "recv"
    /\ chan # <<>>
    /\ LET t == Head(chan)
           merged == Snapshot_merge(agg, t)
       IN  /\ agg' = merged
           /\ chan' = Tail(chan)
           /\ mainPc' = IF unwrap_or_default(Snapshot_get_all_dims(agg, KEY)) >= maxVal
                        THEN "report" ELSE "recv"
           /\ last' = LastOf("recv", "main", FALSE, FALSE, NoneV, "none", PendNew)
    /\ UNCHANGED <<ctx, tstate, rxAlive, maxVal, metric, recorded, pend, discarded, ninc>>
    /\ UNCHANGED auxVars

AggRecv_Strict ==
    /\ mainPc = "recv"
    /\ chan # <<>>
    /\ LET t == Head(chan)
           merged == Snapshot_merge(agg, t)
       IN  /\ agg' = merged
           /\ chan' = Tail(chan)
           /\ mainPc' = IF unwrap_or_default(Snapshot_get_all_dims(merged, KEY)) > maxVal
                        THEN "report" ELSE "recv"
           /\ last' = LastOf("recv", "main", FALSE, FALSE, NoneV, "none", PendNew)
    /\ UNCHANGED <<ctx, tstate, rxAlive, maxVal, metric, recorded, pend, discarded, ninc>>
    /\ UNCHANGED auxVars

\* one iteration of `while let Ok(t) = rx.recv()`.  The runtime keeps the
\* hooks, and with them Sender clones, alive during the loop, so recv on an
\* empty channel waits.
AggRecv ==
    /\ mainPc = "recv"
    /\ chan # <<>>
    /\ LET t == Head(chan)
           merged == Snapshot_merge(agg, t)
       IN  /\ agg' = merged
           /\ chan' = Tail(chan)
           /\ mainPc' = IF unwrap_or_default(Snapshot_get_all_dims(merged, KEY)) >= maxVal
                        THEN "report" ELSE "recv"
           /\ last' = LastOf("recv", "main", FALSE, FALSE, NoneV, "none", PendNew)
    /\ UNCHANGED <<ctx, tstate, rxAlive, maxVal, metric, recorded, pend, discarded, ninc>>
    /\ UNCHANGED auxVars

\* snapshot.get_all_dims(&name).unwrap() and the end of the block, where
\* rx is dropped together with whatever is still in the channel
Report ==
    /\ mainPc = "report"
    /\ LET total == Snapshot_get_all_dims(agg, KEY)
       IN  /\ metric' = IF total.some THEN [st |-> "value", val |-> total.val]
                        ELSE [st |-> "panic", val |-> 0]
           /\ mainPc' = IF total.some THEN "shutdown" ELSE "panicked"
           /\ last' = LastOf("report", "main", ~total.some, FALSE, NoneV, "none", PendNew)
    /\ rxAlive' = FALSE
    /\ chan' = <<>>
    /\ discarded' = Discard(discarded, chan)
    /\ UNCHANGED <<ctx, tstate, agg, maxVal, recorded, pend, ninc>>
    /\ UNCHANGED auxVars

\* rt.shutdown_background()
Shutdown ==
    /\ mainPc = "shutdown"
    /\ mainPc' = "done"
    /\ last' = LastOf("shutdown", "main", FALSE, FALSE, NoneV, "none", PendNew)
    /\ UNCHANGED <<ctx, tstate, chan, rxAlive, agg, maxVal, metric, recorded, pend,
                   discarded, ninc>>
    /\ UNCHANGED auxVars

Next ==
    \/ \E t \in Threads : ThreadStart(t)
    \/ \E t \in Threads, m \in Metrics : Work(t, m)
    \/ \E t \in Threads : Park(t)
    \/ \E t \in Threads : Stop(t)
    \/ AggRecv
    \/ Report
    \/ Shutdown

Spec == Init /\ [][Next]_vars

-----------------------------------------------------------------------------
(* MetricsContext driven directly: a caller may invoke connect, increment  *)
(* and take_snapshot on its thread's context in any order.                 *)

ApiInit ==
    /\ Init
    /\ maxVal = 2

ApiConnect(t) ==
    /\ Connect(t)
    /\ UNCHANGED tstate
    /\ UNCHANGED auxVars

ApiIncrement(t, m) ==
    /\ Increment(t, m)
    /\ UNCHANGED tstate
    /\ UNCHANGED auxVars

ApiTakeSnapshot(t) ==
    LET r == MetricsContext_take_snapshot(ctx[t])
    IN  /\ ctx' = [ctx EXCEPT ![t] = r.ctx]
        /\ pend' = [pend EXCEPT ![t] = IF r.panic THEN @ ELSE PendNew]
        /\ last' = LastOf("take_snapshot", t, r.panic, FALSE, r.taken, "none", pend[t])
        /\ UNCHANGED <<tstate, chan, rxAlive, agg, mainPc, maxVal, metric, recorded,
                       discarded, ninc>>
        /\ UNCHANGED auxVars

ApiNext ==
    \/ \E t \in Threads : ApiConnect(t)
    \/ \E t \in Threads, m \in Metrics : ApiIncrement(t, m)
    \/ \E t \in Threads : ApiTakeSnapshot(t)

ApiSpec == ApiInit /\ [][ApiNext]_vars

-----------------------------------------------------------------------------
(* Progress of the run: the workers keep recording and the main thread     *)
(* keeps receiving.  The increments explored are those of a thread whose   *)
(* live Snapshot is within WarmGap of the threshold, up to the flush.      *)

KeyMetrics == {m \in Metrics : m.key = KEY /\ m.delta > 0}

NearThreshold(t) ==
    /\ tstate[t] = "running"
    /\ ctx[t].snapshot.some
    /\ ctx[t].snapshot.val.cnt >= WarmCnt
    /\ ctx[t].snapshot.val.cnt < FLUSH_THRESHOLD

\* a run with a worker that is recording and a target that the explored
\* increments reach
LiveInit ==
    /\ Init
    /\ \E t \in Threads : tstate[t] = "running"
    /\ maxVal <= WarmCnt

LiveWork(t, m) ==
    /\ NearThreshold(t)
    /\ IncrementBody(t, m)
    /\ UNCHANGED tstate
    /\ UNCHANGED auxVars

LiveNext ==
    \/ \E t \in Threads : ThreadStart(t)
    \/ \E t \in Threads, m \in Metrics : LiveWork(t, m)
    \/ \E t \in Threads : Park(t)
    \/ \E t \in Threads : Stop(t)
    \/ AggRecv
    \/ Report
    \/ Shutdown

\* weak fairness of the target-key increments of t, that is
\* WF_vars(\E m \in KeyMetrics : LiveWork(t, m)), written out: increment
\* has no precondition, so the action is enabled exactly when
\* NearThreshold(t) holds
WorkerFair(t) ==
    \/ []<>(~NearThreshold(t))
    \/ []<><<\E m \in KeyMetrics : LiveWork(t, m)>>_vars

\* a task that loops over increment is scheduled again and again, and
\* rx.recv() returns when a batch is in the channel
LiveSpec ==
    /\ LiveInit
    /\ [][LiveNext]_vars
    /\ \A t \in Threads : WorkerFair(t)
    /\ WF_vars(AggRecv)

-----------------------------------------------------------------------------
(* A worker task: the loops of do_work_async and do_work_async_one_dim.    *)
(* task.since counts the increments the task has made since it was spawned *)
(* or since its last yield_now().await.                                    *)

\* consecutive increments of a task explored
MaxRun == 101

\* the period of `if iter % 100 == 0`
YieldEvery == 100

\* iter & (iter - 1) == 0
RECURSIVE AndWithPredecessorIsZero(_)
AndWithPredecessorIsZero(n) ==
    IF n <= 1 THEN TRUE
    ELSE n % 2 = 0 /\ AndWithPredecessorIsZero(n \div 2)

\* the metric one pass of the loop records, given `iter` at the call
LoopMetric(kind, iter) ==
    IF kind = "tlv" THEN Counter(KEY, 1)
    ELSE IF iter % 3 = 0 THEN OneDimensionCounter(KEY, "H3", 1)
    ELSE IF AndWithPredecessorIsZero(iter) THEN OneDimensionCounter(KEY, "H2", 1)
    ELSE OneDimensionCounter(KEY, "H1", 1)

TaskInit ==
    /\ Init
    /\ tstate = [t \in Threads |-> "running"]
    /\ maxVal = 100000000

\* rt.spawn(metrics::do_work_async()) / rt.spawn(metrics::do_work_async_one_dim())
Spawn(kind, t) ==
    /\ task.kind = "none"
    /\ tstate[t] = "running"
    /\ task' = [kind |-> kind, t |-> t, iter |-> 0, since |-> 0, helper |-> "-"]
    /\ UNCHANGED <<sysVars, txAlive, storeVars>>

\* one pass of the body of `loop`: `let mut iter = 0`, the increment,
\* `iter += 1`, and the yield when iter % 100 == 0
LoopPass ==
    /\ task.kind # "none"
    /\ task.since < MaxRun
    /\ LET iter0 == 0
           m == LoopMetric(task.kind, iter0)
           iter1 == iter0 + 1
           yields == iter1 % YieldEvery = 0
       IN  /\ IncrementBody(task.t, m)
           /\ \E t2 \in IF yields THEN {t \in Threads : tstate[t] = "running"}
                         ELSE {task.t} :
                 task' = [kind |-> task.kind, t |-> t2, iter |-> iter1,
                          since |-> IF yields THEN 0 ELSE task.since + 1,
                          helper |-> m.helper]
    /\ UNCHANGED <<tstate, txAlive, storeVars>>

TaskNext ==
    \/ \E kind \in {"tlv", "tlv-dim-1"}, t \in Threads : Spawn(kind, t)
    \/ LoopPass

TaskSpec == TaskInit /\ [][TaskNext]_vars

-----------------------------------------------------------------------------
(* The aggregator block of main against a channel whose senders may all be *)
(* dropped: rx.recv() returns Err once the channel is empty and no Sender  *)
(* is left, and `while let Ok(t)` ends the loop.                           *)

AggInit ==
    /\ Init
    /\ tstate = [t \in Threads |-> "new"]

\* a sender flushes a batch: a Snapshot that recorded m
SenderFlush(m) ==
    /\ txAlive
    /\ rxAlive
    /\ ninc < MaxInc
    /\ chan' = Append(chan, Snapshot_increment(Snapshot_new, m).snap)
    /\ recorded' = [recorded EXCEPT ![into_metric(m)[1]] = @ + m.delta]
    /\ ninc' = ninc + 1
    /\ last' = LastOf("send", "main", FALSE, FALSE, NoneV, "ok", PendNew)
    /\ UNCHANGED <<ctx, tstate, rxAlive, agg, mainPc, maxVal, metric, pend, discarded>>
    /\ UNCHANGED auxVars

\* the last Sender is dropped
DropSenders ==
    /\ txAlive
    /\ txAlive' = FALSE
    /\ last' = LastOf("drop_tx", "main", FALSE, FALSE, NoneV, "none", PendNew)
    /\ UNCHANGED <<ctx, tstate, chan, rxAlive, agg, mainPc, maxVal, metric, recorded,
                   pend, discarded, ninc>>
    /\ UNCHANGED <<storeVars, task>>

\* rx.recv() is Err(RecvError): the pattern `Ok(t)` does not match
AggRecvErr ==
    /\ mainPc = "recv"
    /\ chan = <<>>
    /\ ~txAlive
    /\ mainPc' = "report"
    /\ last' = LastOf("recv_err", "main", FALSE, FALSE, NoneV, "none", PendNew)
    /\ UNCHANGED <<ctx, tstate, chan, rxAlive, agg, maxVal, metric, recorded, pend,
                   discarded, ninc>>
    /\ UNCHANGED auxVars

AggNext ==
    \/ \E m \in Metrics : SenderFlush(m)
    \/ DropSenders
    \/ AggRecv
    \/ AggRecvErr
    \/ Report
    \/ Shutdown

AggSpec == AggInit /\ [][AggNext]_vars

-----------------------------------------------------------------------------
(* A MetricStore driven directly: update, merge, get_counter and           *)
(* get_counter_all_dim in any order, with any of the explored identities.  *)

StoreInit ==
    /\ Init
    /\ tstate = [t \in Threads |-> "new"]
    /\ maxVal = 2

StoreOps == SumOver(StoreIdents, [id \in StoreIdents |-> hist[id].n])

\* variant: the owned key is built before the lookup, on every call
UpdateConversions_Eager(buf, key) == 1

\* the clone_into_owned calls of one update: only the Vacant arm has one
UpdateConversions(buf, key) ==
    IF FromHashEq(buf, key) # {} THEN 0 ELSE 1

StoreUpdate(id, delta) ==
    /\ StoreOps < MaxOps
    /\ store' = MetricStore_update(store, id, delta)
    /\ allocs' = allocs + UpdateConversions(store, id)
    /\ hist' = HistAdd(hist, id, delta)
    /\ slast' = SLastOf("update", id, id.key, delta, NoneV)
    /\ UNCHANGED <<moved, sysVars, txAlive, task>>

\* merge of a store that recorded one identity
StoreMerge(id, delta) ==
    /\ StoreOps < MaxOps
    /\ LET other == MetricStore_update(MetricStore_default, id, delta)
       IN  store' = MetricStore_merge(store, other)
    /\ moved' = moved + Cardinality(store') - Cardinality(store)
    /\ hist' = HistAdd(hist, id, delta)
    /\ slast' = SLastOf("merge", id, id.key, delta, NoneV)
    /\ UNCHANGED <<allocs, sysVars, txAlive, task>>

StoreGet(id) ==
    /\ slast' = SLastOf("get", id, id.key, 0, get_counter(store, id))
    /\ UNCHANGED <<store, allocs, moved, hist, sysVars, txAlive, task>>

StoreGetAllDims(key) ==
    /\ slast' = SLastOf("get_all_dims", with_no_labels(key), key, 0,
                        get_counter_all_dim(store, key))
    /\ UNCHANGED <<store, allocs, moved, hist, sysVars, txAlive, task>>

StoreNext ==
    \/ \E id \in StoreIdents, delta \in Deltas : StoreUpdate(id, delta)
    \/ \E id \in StoreIdents, delta \in Deltas : StoreMerge(id, delta)
    \/ \E id \in StoreIdents : StoreGet(id)
    \/ \E key \in StoreKeys : StoreGetAllDims(key)

StoreSpec == StoreInit /\ [][StoreNext]_vars

-----------------------------------------------------------------------------
(* Properties *)

Connected == {t \in Threads : ctx[t].snapshot.some}

IdentsOf(key) == {id \in Idents : id.key = key}

\* everything recorded so far has been flushed, and every flushed batch has
\* been merged by the aggregator
AllFlushedAndMerged ==
    /\ \A t \in Connected : Snapshot_is_empty(ctx[t].snapshot.val)
    /\ chan = <<>>
    /\ discarded.n = 0

\* C1: once every thread's flushed batches have been merged into the
\* aggregator's store, get(identity) is the sum of the deltas recorded for
\* the identity over all threads and get_all_dims(key) the sum of the deltas
\* recorded under the key over all label values.
C1_AggregationCorrect ==
    AllFlushedAndMerged =>
        /\ \A id \in Idents :
              Snapshot_get(agg, id) =
                 IF recorded[id] > 0 THEN Some(recorded[id]) ELSE NoneV
        /\ \A key \in Keys :
              unwrap_or_default(Snapshot_get_all_dims(agg, key))
                 = SumOver(IdentsOf(key), recorded)

C1_Witness ==
    /\ AllFlushedAndMerged
    /\ ninc >= 2
    /\ Cardinality(agg.store) >= 2
    /\ unwrap_or_default(Snapshot_get(agg, WarmIdent)) > WarmCnt
    /\ unwrap_or_default(Snapshot_get_all_dims(agg, KEY))
          > unwrap_or_default(Snapshot_get(agg, WarmIdent))

RECURSIVE LiveKeyTotal(_, _)
LiveKeyTotal(T, key) ==
    IF T = {} THEN 0
    ELSE LET t == CHOOSE t \in T : TRUE
         IN  KeyTotal(ctx[t].snapshot.val, key) + LiveKeyTotal(T \ {t}, key)

\* C2: for each key, the deltas recorded so far are held in exactly one of:
\* the live Snapshots, the batches in the channel, the aggregator's store,
\* the batches discarded with the channel or by a failed send.
C2_NoLossNoDouble ==
    \A key \in Keys :
        SumOver(IdentsOf(key), recorded)
           = LiveKeyTotal(Connected, key) + SeqKeyTotal(chan, key)
             + KeyTotal(agg, key) + discarded.tot[key]

C2_Witness ==
    /\ discarded.tot[KEY] > 0
    /\ KeyTotal(agg, KEY) > 0
    /\ LiveKeyTotal(Connected, KEY) > 0
    /\ last.op = "increment"

\* the count of every identity in a store
Counts(buf) == [id \in Idents |-> get_counter(buf, id)]

BatchStore(i) == IF i <= Len(chan) THEN chan[i].store ELSE MetricStore_default

OrderIndependent(base, a, b, c) ==
    LET M(x, y) == MetricStore_merge(x, y)
        ma == M(base, a)
        mb == M(base, b)
        mc == M(base, c)
        abc == M(M(ma, b), c)
        r == Counts(abc)
    IN  /\ Counts(M(M(ma, c), b)) = r
        /\ Counts(M(M(mb, a), c)) = r
        /\ Counts(M(M(mb, c), a)) = r
        /\ Counts(M(M(mc, a), b)) = r
        /\ Counts(M(M(mc, b), a)) = r
        /\ Counts(M(base, M(M(a, b), c))) = r
        /\ Counts(M(ma, M(b, c))) = r
        /\ Cardinality(M(M(mc, b), a)) = Cardinality(abc)

\* C3: merging the first three batches of the channel (a third one missing
\* is taken as an empty store) into the aggregator's store, which is empty
\* until the first batch is received, gives the same count for every
\* identity in every order and grouping.
C3_MergeOrderIndependent ==
    Len(chan) >= 2 =>
        OrderIndependent(agg.store, BatchStore(1), BatchStore(2), BatchStore(3))

C3_Witness ==
    /\ Len(chan) >= 3
    /\ \A i \in 1..3 : Snapshot_get(chan[i], WarmIdent).some
    /\ chan[1].store # chan[2].store
    /\ chan[1].store # chan[3].store
    /\ chan[2].store # chan[3].store
    /\ \E i \in 1..3 : Cardinality(chan[i].store) >= 2

TakeOps == {"park", "stop", "increment", "take_snapshot"}

\* C4: a Snapshot that was fresh, then incremented K times with one delta d
\* under one key and then taken: the detached Snapshot's get_all_dims for
\* the key is K * d (nothing for K = 0) and the original is empty, without
\* entries.
C4_BatchRoundTrip ==
    (last.op \in TakeOps /\ last.taken.some) =>
        /\ \A key \in Keys, d \in 0..2 :
              last.gp.kd = {<<key, d>>} =>
                 Snapshot_get_all_dims(last.taken.val, key) = Some(last.gp.k * d)
        /\ last.gp.k = 0 =>
              \A key \in Keys : Snapshot_get_all_dims(last.taken.val, key) = NoneV
        /\ Snapshot_is_empty(ctx[last.t].snapshot.val)
        /\ ctx[last.t].snapshot.val.store = {}

C4_Witness ==
    /\ last.op = "park"
    /\ last.taken.some
    /\ last.gp.k = 2
    /\ last.gp.kd = {<<"foo", 2>>}
    /\ Snapshot_get_all_dims(last.taken.val, "foo") = Some(4)
    /\ Snapshot_is_empty(ctx[last.t].snapshot.val)

\* C5: Snapshot.increment returns true on exactly the call that brings the
\* number of increments since the Snapshot was fresh to 50,000 and false on
\* every earlier call, whatever was incremented.
C5_ThresholdSignal ==
    (last.op = "increment" /\ ~last.panic) =>
        /\ last.gp.k <= 50000
        /\ last.ret <=> (last.gp.k = 50000)

C5_Witness ==
    /\ last.op = "increment"
    /\ last.ret
    /\ last.gp.k = 50000
    /\ Cardinality(last.gp.kd) = 2

\* thread t ran one of its lifecycle hooks in this step
HookStep(t) == last'.t = t /\ last'.op \in {"park", "stop"}

\* thread t made an increment call in this step
IncrementStep(t) == last'.t = t /\ last'.op = "increment" /\ ninc' = ninc + 1

\* C6: a park or stop notification of a thread whose live Snapshot has no
\* increments puts nothing on the channel, and every batch on the channel
\* has at least one increment.
C6_EmptyBatchSuppressed ==
    /\ [](\A i \in 1..Len(chan) : chan[i].cnt >= 1)
    /\ [][\A t \in Connected :
            (HookStep(t) /\ ctx[t].snapshot.val.cnt = 0)
               => (chan' = chan /\ discarded' = discarded)]_vars

C6_Witness ==
    /\ last.op = "park"
    /\ last.taken.some
    /\ last.taken.val.cnt = 0
    /\ last.sent = "none"
    /\ chan # <<>>
    /\ rxAlive

\* C7: a Context.increment that makes the live Snapshot signal the
\* threshold detaches it and sends it as one batch, leaving a fresh empty
\* live Snapshot; any other increment sends nothing; afterwards the live
\* Snapshot holds fewer than 50,000 increments.
C7_ThresholdFlush ==
    [][\A t \in Connected :
         IncrementStep(t) =>
            /\ IF last'.ret
               THEN /\ last'.taken.some
                    /\ last'.taken.val.cnt = 50000
                    /\ \A id \in Idents :
                          unwrap_or_default(Snapshot_get(last'.taken.val, id))
                             = last'.gp.by[id]
                    /\ rxAlive => chan' = Append(chan, last'.taken.val)
                    /\ ctx'[t].snapshot = Some(Snapshot_new)
               ELSE /\ chan' = chan
                    /\ discarded' = discarded
                    /\ ctx'[t].snapshot.val.cnt = ctx[t].snapshot.val.cnt + 1
            /\ ctx'[t].snapshot.val.cnt < 50000]_vars

C7_Witness ==
    /\ last.op = "increment"
    /\ last.ret
    /\ last.sent = "ok"
    /\ chan # <<>>
    /\ chan[Len(chan)] = last.taken.val
    /\ chan[Len(chan)].cnt = 50000
    /\ ctx[last.t].snapshot = Some(Snapshot_new)

\* C8: a park or stop notification of a thread whose live Snapshot has at
\* least one increment detaches the whole Snapshot and sends it as one batch
\* with exactly the counts accumulated since the previous flush; after any
\* notification the live Snapshot is empty.
C8_LifecycleFlush ==
    [][\A t \in Connected :
         HookStep(t) =>
            /\ ctx[t].snapshot.val.cnt >= 1 =>
                  /\ last'.taken = ctx[t].snapshot
                  /\ \A id \in Idents :
                        unwrap_or_default(Snapshot_get(last'.taken.val, id))
                           = pend[t].by[id]
                  /\ rxAlive => chan' = Append(chan, ctx[t].snapshot.val)
            /\ ctx'[t].snapshot = Some(Snapshot_new)]_vars

C8_Witness ==
    /\ last.op = "park"
    /\ last.sent = "ok"
    /\ last.gp.k = 2
    /\ chan[Len(chan)] = last.taken.val
    /\ Cardinality(last.taken.val.store) = 2
    /\ ctx[last.t].snapshot = Some(Snapshot_new)

\* C9: increment or take_snapshot on a context that was never connected
\* panics, changes no context and no record, and sends nothing.
C9_FailFastBeforeConnect ==
    [][\A t \in Threads :
         (last'.t = t /\ last'.op \in {"increment", "take_snapshot"}
             /\ ~ctx[t].snapshot.some)
            => /\ last'.panic
               /\ ~last'.taken.some
               /\ UNCHANGED <<ctx, chan, recorded, discarded, pend>>]_vars

C9_Witness ==
    /\ last.op = "increment"
    /\ last.panic
    /\ ~ctx[last.t].snapshot.some
    /\ Connected # {}
    /\ recorded # ZeroCounts

\* C10: a threshold or lifecycle flush that sends after the receiver is gone
\* does not panic, the batch is dropped and not queued, and the thread goes
\* on with a fresh empty live Snapshot; increments after that accumulate as
\* before.
C10_FailedSendIsLoss ==
    [][\A t \in Connected :
         /\ (~rxAlive /\ (HookStep(t) \/ IncrementStep(t)) /\ last'.taken.some
               /\ ~Snapshot_is_empty(last'.taken.val))
              => /\ ~last'.panic
                 /\ chan' = chan
                 /\ discarded'.n = discarded.n + 1
                 /\ ctx'[t].snapshot = Some(Snapshot_new)
                 /\ tstate'[t] \in {"running", "stopped"}
         /\ (~rxAlive /\ IncrementStep(t) /\ ~last'.ret)
              => /\ ~last'.panic
                 /\ ctx'[t].snapshot.val.cnt = ctx[t].snapshot.val.cnt + 1
                 /\ \A key \in Keys :
                       KeyTotal(ctx'[t].snapshot.val, key)
                          = KeyTotal(ctx[t].snapshot.val, key)
                            + SumOver(IdentsOf(key), recorded')
                            - SumOver(IdentsOf(key), recorded)]_vars

C10_Witness ==
    /\ ~rxAlive
    /\ last.op = "increment"
    /\ ~last.panic
    /\ ~last.ret
    /\ last.t \in discarded.failedBy
    /\ ctx[last.t].snapshot.val.cnt = pend[last.t].k
    /\ pend[last.t].k >= 1
    /\ pend[last.t].k < WarmCnt

\* C11: the aggregator evaluates get_all_dims(KEY) >= max_val after each
\* merged batch and leaves the loop at the first batch for which it holds;
\* once it has left the loop its store never changes again, whatever is
\* still in the channel or is sent later, and a total it reports is at least
\* max_val.
C11_StopPredicate ==
    /\ [][(mainPc = "recv" /\ last'.op = "recv")
            => /\ agg' = Snapshot_merge(agg, Head(chan))
               /\ (mainPc' # "recv")
                    <=> (unwrap_or_default(Snapshot_get_all_dims(agg', KEY)) >= maxVal)]_vars
    /\ [][(mainPc # "recv") => (agg' = agg /\ mainPc' # "recv")]_vars
    /\ []((mainPc = "recv" /\ agg.store # MetricStore_default)
            => unwrap_or_default(Snapshot_get_all_dims(agg, KEY)) < maxVal)
    /\ []((mainPc # "recv")
            => unwrap_or_default(Snapshot_get_all_dims(agg, KEY)) >= maxVal)
    /\ []((metric.st = "value")
            => /\ metric.val >= maxVal
               /\ Snapshot_get_all_dims(agg, KEY) = Some(metric.val))

\* the aggregator has stopped at a total equal to max_val, a batch that was
\* sent after that is in the channel, and the store is what it stopped with
C11_Witness ==
    /\ mainPc = "report"
    /\ maxVal > 0
    /\ Snapshot_get_all_dims(agg, KEY) = Some(maxVal)
    /\ last.op = "park"
    /\ last.sent = "ok"
    /\ chan # <<>>

\* identities that address the counter of id: the identities whose owned
\* form compares equal to id
WeakClassOf == [id \in StoreIdents |-> {id2 \in StoreIdents : eq(clone_into_owned(id2), id)}]

WeakClass(id) == WeakClassOf[id]

\* id, or an identity of its class, has been recorded by update or merge
Recorded(id) == \E id2 \in WeakClass(id) : hist[id2].n > 0

ClassSum(id) == SumOver(WeakClass(id), [id2 \in StoreIdents |-> hist[id2].sum])

RecordedClasses == {WeakClass(id) : id \in {id2 \in StoreIdents : hist[id2].n > 0}}

UpdateStep == slast'.op = "update" /\ hist' # hist

\* C12: update on an identity that is present converts no key and inserts
\* no entry; update on an absent identity converts exactly once; so the
\* conversions made by update (plus the owned keys moved in by merge) equal
\* the number of entries, which is the number of distinct identities
\* recorded.
C12_NoAllocHotPath ==
    /\ [][UpdateStep =>
            IF Recorded(slast'.id)
            THEN /\ allocs' = allocs
                 /\ {e.k : e \in store'} = {e.k : e \in store}
                 /\ Cardinality(store') = Cardinality(store)
            ELSE /\ allocs' = allocs + 1
                 /\ Cardinality(store') = Cardinality(store) + 1]_vars
    /\ [](allocs + moved = Cardinality(store))
    /\ [](Cardinality(store) = Cardinality(RecordedClasses))
    /\ []((moved = 0) => (allocs = Cardinality(RecordedClasses)))

\* the same identity has been updated twice; one conversion was made
C12_Witness ==
    /\ slast.op = "update"
    /\ hist[slast.id].n = 2
    /\ allocs = 1
    /\ moved = 0
    /\ Cardinality(store) = 1

\* C13: update adds delta to the count of the entry equal to the identity,
\* or inserts an entry with count delta when there is none; every other
\* entry stays as it is and none is added or removed.  get of an identity
\* returns the sum of the deltas recorded for it; the deltas 0..9 of the
\* unit test give 45.
C13_UpdateSemantics ==
    /\ [][UpdateStep =>
            LET id == slast'.id
                old == get_counter(store, id)
                others(buf) == {e \in buf : ~eq(e.k, id)}
            IN  /\ get_counter(store', id)
                     = Some((IF old.some THEN old.val ELSE 0) + slast'.delta)
                /\ old.some <=> (\E e \in store : eq(e.k, id))
                /\ Cardinality(store')
                     = Cardinality(store) + (IF old.some THEN 0 ELSE 1)
                /\ others(store') = others(store)
                /\ Cardinality(store' \ others(store')) = 1
                /\ \A id2 \in StoreIdents \ WeakClass(id) :
                      get_counter(store', id2) = get_counter(store, id2)]_vars
    /\ [](\A id \in StoreIdents :
            Recorded(id) => get_counter(store, id) = Some(ClassSum(id)))
    /\ [](get_counter(one_dimension, with_one_label("foo", "helper", "H1")) = Some(45))

\* an identity was updated with 2 and with 0 and its count is 2
C13_Witness ==
    /\ slast.op = "update"
    /\ moved = 0
    /\ hist[slast.id] = [n |-> 2, sum |-> 2]
    /\ get_counter(store, slast.id) = Some(2)

\* the equality the store is to implement: equal keys and, slot by slot,
\* both labels absent or both present with equal name and equal surrogate
SameCounter(a, b) ==
    /\ a.key = b.key
    /\ \A i \in 1..LABELS :
          \/ ~a.labels[i].some /\ ~b.labels[i].some
          \/ /\ a.labels[i].some /\ b.labels[i].some
             /\ a.labels[i].val[1] = b.labels[i].val[1]
             /\ LabelValue_as_u64(a.labels[i].val[2]) = LabelValue_as_u64(b.labels[i].val[2])

SameCounterPairs == {p \in StoreIdents \X StoreIdents : SameCounter(p[1], p[2])}

\* eq (borrowed against owned) and same (owned against owned) are that
\* equality
EqIsSameCounter ==
    \A a \in StoreIdents, b \in StoreIdents :
       /\ eq(clone_into_owned(a), b) <=> (<<a, b>> \in SameCounterPairs)
       /\ same(clone_into_owned(a), clone_into_owned(b)) <=> (<<a, b>> \in SameCounterPairs)

RecordStep == slast'.op \in {"update", "merge"} /\ hist' # hist

\* C14: in update, get and merge two identities address the same counter
\* exactly when their keys are equal and their labels agree slot by slot in
\* presence, name and surrogate; the label value itself is not compared, so
\* two different values with the same name and surrogate share one entry.
C14_WeakEquality ==
    /\ [](EqIsSameCounter)
    /\ [](\A p \in SameCounterPairs :
            (p[1] # p[2]) => FromHashEq(store, p[1]) = FromHashEq(store, p[2]))
    /\ [](\A e \in store :
            \A a, b \in {id \in StoreIdents : FromHashEq({e}, id) # {}} :
               <<a, b>> \in SameCounterPairs)
    /\ [][RecordStep =>
            \A b \in StoreIdents :
               IF <<slast'.id, b>> \in SameCounterPairs
               THEN get_counter(store', b)
                       = Some(unwrap_or_default(get_counter(store, b)) + slast'.delta)
               ELSE get_counter(store', b) = get_counter(store, b)]_vars

\* the values H1 and R1 of label "helper" of key "foo" were both recorded
\* and share one entry, which holds the sum
C14_Witness ==
    /\ hist[with_one_label("foo", "helper", "H1")] = [n |-> 1, sum |-> 2]
    /\ hist[with_one_label("foo", "helper", "R1")] = [n |-> 1, sum |-> 2]
    /\ Cardinality(store) = 1
    /\ slast.op = "get"
    /\ slast.id = with_one_label("foo", "helper", "R1")
    /\ slast.res = Some(4)

SameFeed ==
    \A id \in StoreIdents :
       compute_hash_borrowed(id) = compute_hash_owned(clone_into_owned(id))

\* C15: a borrowed identity and the owned identity converted from it feed
\* the hasher the same sequence, for every combination of populated label
\* slots; so an identity recorded by update is found by a later get or
\* update with the same borrowed identity.
C15_HashConsistency ==
    /\ [](SameFeed)
    /\ [](\A id \in StoreIdents :
            (hist[id].n > 0)
               => /\ get_counter(store, id).some
                  /\ \E e \in store :
                        eq(e.k, id) /\ compute_hash_owned(e.k) = compute_hash_borrowed(id))
    /\ [][(UpdateStep /\ hist[slast'.id].n > 0)
            => Cardinality(store') = Cardinality(store)]_vars

\* the identity with two populated slots was inserted by update and a get
\* with the same borrowed identity found it
C15_Witness ==
    /\ slast.op = "get"
    /\ Cardinality({i \in 1..LABELS : slast.id.labels[i].some}) = 2
    /\ hist[slast.id].n = 1
    /\ moved = 0
    /\ allocs = 2
    /\ slast.res = Some(2)

GetStep == slast'.op \in {"get", "get_all_dims"} /\ slast' # slast

\* C16: get of an identity that was never recorded returns None, and
\* get_all_dims of a key that no entry has returns None; neither changes the
\* store; an entry that is present is reported as Some(count), a count of 0
\* included.
C16_AbsenceRepresentable ==
    /\ []((slast.op = "get")
            => slast.res = IF Recorded(slast.id) THEN Some(ClassSum(slast.id)) ELSE NoneV)
    /\ []((slast.op = "get_all_dims")
            => LET ids == {id \in StoreIdents : id.key = slast.key}
               IN  slast.res = IF \E id \in ids : hist[id].n > 0
                                THEN Some(SumOver(ids, [id \in StoreIdents |-> hist[id].sum]))
                                ELSE NoneV)
    /\ [][GetStep => UNCHANGED <<store, allocs, moved, hist>>]_vars
    /\ [](\A id \in StoreIdents :
            (\E e \in store : eq(e.k, id)) => get_counter(store, id).some)
    /\ [](/\ get_counter(one_dimension, with_one_label("foo", "helper", "H3")) = NoneV
          /\ get_counter(one_dimension, with_one_label("foo", "helper", "H2")) = Some(3))

\* a get of an unrecorded identity returned None while the store holds an
\* entry of the same key whose count is 0
C16_Witness ==
    /\ slast.op = "get"
    /\ slast.res = NoneV
    /\ \E id \in StoreIdents :
          /\ id.key = slast.key
          /\ hist[id].n > 0
          /\ get_counter(store, id) = Some(0)

C19_YieldsEvery100 ==
    /\ [](task.since <= YieldEvery)
    /\ [][(task.kind # "none" /\ task.since = YieldEvery - 1 /\ task' # task)
            => task'.since = 0]_vars

\* C20: connect on a context that is already connected replaces the live
\* Snapshot by a fresh empty one and sends nothing, so what was recorded
\* since the last flush is gone; increment and take_snapshot never drop
\* pending counts: they stay live or leave in the batch that is taken, and a
\* batch taken by increment is handed to send.
C20_ReconnectDiscards ==
    [][\A t \in Threads :
         /\ (last'.op = "connect" /\ last'.t = t /\ last' # last
               /\ ctx[t].snapshot.some /\ ~Snapshot_is_empty(ctx[t].snapshot.val))
              => /\ ctx'[t].snapshot = Some(Snapshot_new)
                 /\ ~last'.taken.some
                 /\ last'.sent = "none"
                 /\ last'.gp = pend[t]
                 /\ last'.gp.k >= 1
                 /\ UNCHANGED <<chan, discarded, agg, recorded>>
         /\ (last'.op \in {"increment", "take_snapshot"} /\ last'.t = t /\ last' # last
               /\ ctx[t].snapshot.some)
              => /\ \A key \in Keys :
                       KeyTotal(ctx[t].snapshot.val, key)
                          + SumOver(IdentsOf(key), recorded')
                          - SumOver(IdentsOf(key), recorded)
                        = KeyTotal(ctx'[t].snapshot.val, key)
                          + (IF last'.taken.some THEN KeyTotal(last'.taken.val, key) ELSE 0)
                 /\ (last'.op = "increment" /\ last'.taken.some)
                       => (last'.sent = "ok" /\ chan' = Append(chan, last'.taken.val))]_vars

\* a connected context that held recorded counts was connected again:
\* its Snapshot is empty, nothing is in the channel and nothing was sent
C20_Witness ==
    /\ last.op = "connect"
    /\ last.gp.k >= 1
    /\ last.gp.k < WarmCnt
    /\ ctx[last.t].snapshot = Some(Snapshot_new)
    /\ chan = <<>>
    /\ discarded = NoDiscard
    /\ SumOver(Idents, recorded) > SumOver(Idents, [id \in Idents |-> 0])

\* every increment made so far recorded the target key (the explored
\* metrics of that key all have delta 1)
OnlyUnitKey ==
    /\ \A m \in Metrics \cup TaskMetrics : (m.key = KEY) => (m.delta = 1)
    /\ \A id \in Idents : (id.key # KEY) => (recorded[id] = 0)

\* C21: when every increment has delta 1 on the target key and max_val is
\* at least 1, every batch in the channel carries between 1 and 50,000
\* increments, and the total T the aggregator holds once it has stopped on
\* the predicate satisfies max_val <= T <= max_val + 49,999.
C21_BoundedOvershoot ==
    (OnlyUnitKey /\ maxVal >= 1)
       => /\ \A i \in 1..Len(chan) :
                /\ chan[i].cnt >= 1
                /\ chan[i].cnt <= FLUSH_THRESHOLD
                /\ KeyTotal(chan[i], KEY) = chan[i].cnt
          /\ (mainPc # "recv")
                => /\ KeyTotal(agg, KEY) >= maxVal
                   /\ KeyTotal(agg, KEY) <= maxVal + FLUSH_THRESHOLD - 1

\* the aggregator stopped at exactly max_val + 49,999: one increment short
\* of the target had been merged when a full threshold batch arrived
C21_Witness ==
    /\ OnlyUnitKey
    /\ maxVal = 2
    /\ mainPc = "report"
    /\ last.op = "recv"
    /\ KeyTotal(agg, KEY) = maxVal + FLUSH_THRESHOLD - 1

====
